---- MODULE Spec2Model ----
(***************************************************************************)
(* A model of the GDB remote-serial-protocol stub of gdbstub_rsp.c and     *)
(* gdbstub_sys.c: the packet loop dbg_main, the framing functions          *)
(* dbg_recv_packet / dbg_send_packet, the codecs, the register block and   *)
(* the memory map.                                                         *)
(*                                                                         *)
(* Conventions.                                                            *)
(*  - A byte is a number 0..255; a C string or buffer is a sequence of     *)
(*    bytes.  C offsets are 0-based: Peek(s, i) is s[i] of the C code.     *)
(*  - A uint32_t / int is a record [hi, lo] of two 16-bit halves, because  *)
(*    the model checker's integers are 32-bit signed; arithmetic on words  *)
(*    wraps modulo 2^32.                                                   *)
(*  - A size_t is an integer; a negative integer stands for the wrapped    *)
(*    value 2^64 + n (the result of an unsigned subtraction below zero).   *)
(*  - A pointer into pkt_buf is its 0-based offset; NULL is -1.            *)
(*  - Loops over buffers are run by halving (Run(st, n) runs n iterations  *)
(*    of the loop body), which keeps the evaluation depth logarithmic.     *)
(*  - The host is little-endian with a signed plain char (x86).            *)
(*  - Uninitialised stack memory (pkt_buf before the first packet, the     *)
(*    bytes after it, data[] in dbg_mem_write, buff[8] and x in            *)
(*    hex_to_u32) holds the byte stk everywhere; stk is chosen in Init.    *)
(***************************************************************************)
EXTENDS Integers, Sequences, FiniteSets, TLC

VARIABLES
    regs,       \* struct registers: the fields dbg_main reads and writes
    memory,     \* dbg_state.memory: the list of mem_region
    pkt_buf,    \* char pkt_buf[1024] of dbg_main
    pkt_len,    \* size_t pkt_len of dbg_main
    pc,         \* where dbg_main is
    inp,        \* stdin: the bytes not yet read (end of file follows them)
    io,         \* transcript: frames read, bytes written, acknowledgments read
    eof_at,     \* the phase in which getchar() first returned EOF
    stk         \* the byte uninitialised stack memory holds

vars == <<regs, memory, pkt_buf, pkt_len, pc, inp, io, eof_at, stk>>

(***************************************************************************)
(* Bytes and characters                                                    *)
(***************************************************************************)
AsciiPrintable ==
    << " ", "!", "dquote", "#", "$", "%", "&", "'", "(", ")", "*", "+", ",", "-",
       ".", "/", "0", "1", "2", "3", "4", "5", "6", "7", "8", "9", ":", ";",
       "<", "=", ">", "?", "@", "A", "B", "C", "D", "E", "F", "G", "H", "I",
       "J", "K", "L", "M", "N", "O", "P", "Q", "R", "S", "T", "U", "V", "W",
       "X", "Y", "Z", "[", "bslash", "]", "^", "_", "bquote", "a", "b", "c", "d", "e",
       "f", "g", "h", "i", "j", "k", "l", "m", "n", "o", "p", "q", "r", "s",
       "t", "u", "v", "w", "x", "y", "z", "{", "|", "}", "~" >>

\* The character code of a one-character string (a C character literal).
Ord(c) == 31 + (CHOOSE i \in 1..Len(AsciiPrintable) : AsciiPrintable[i] = c)

\* The bytes of a C string literal.
Str(s) == [i \in 1..Len(s) |-> Ord(SubSeq(s, i, i))]

EOF == -1
NULL == -1

\* s[i] of the C code, for a buffer s on the stack: past its end lies other
\* stack memory.
Peek(s, i) == IF i >= 0 /\ i < Len(s) THEN s[i + 1] ELSE stk

\* a < b for two size_t values.
SizeLt(a, b) ==
    IF a >= 0 /\ b >= 0 THEN a < b
    ELSE IF a >= 0 THEN TRUE
    ELSE IF b >= 0 THEN FALSE
    ELSE a < b

(***************************************************************************)
(* 32-bit words                                                            *)
(***************************************************************************)
W32(h, l) == [hi |-> h, lo |-> l]

\* The word of a number 0 <= n < 2^31.
Word(n) == W32(n \div 65536, n % 65536)

\* (w * m + d) modulo 2^32, for 0 <= m <= 16 and 0 <= d < 65536.
MulAdd32(w, m, d) ==
    LET l == w.lo * m + d
        h == w.hi * m + (l \div 65536)
    IN  W32(h % 65536, l % 65536)

\* (a + b) modulo 2^32.
Add32(a, b) ==
    LET l == a.lo + b.lo
        h == a.hi + b.hi + (l \div 65536)
    IN  W32(h % 65536, l % 65536)

\* -w modulo 2^32.
Neg32(w) == Add32(W32(65535 - w.hi, 65535 - w.lo), W32(0, 1))

\* a < b, unsigned.
Lt32(a, b) == a.hi < b.hi \/ (a.hi = b.hi /\ a.lo < b.lo)

\* a - b as a number, for b <= a < b + 2^31.
Diff32(a, b) == (a.hi - b.hi) * 65536 + (a.lo - b.lo)

\* The four bytes of a word in the memory of a little-endian host.
BytesOf32(w) == << w.lo % 256, w.lo \div 256, w.hi % 256, w.hi \div 256 >>

(***************************************************************************)
(* String processing helpers                                               *)
(***************************************************************************)
\* A digit table in capitals.
UpperDigit(val) == IF val >= 0 /\ val <= 15 THEN Str("0123456789ABCDEF")[val + 1] ELSE EOF

digits == Str("0123456789abcdef")

dbg_get_digit(val) == IF val >= 0 /\ val <= 15 THEN digits[val + 1] ELSE EOF

dbg_get_val(digit, base) ==
    LET value ==
            IF digit >= Ord("0") /\ digit <= Ord("9") THEN digit - Ord("0")
            ELSE IF digit >= Ord("a") /\ digit <= Ord("f")
                 THEN digit - Ord("a") + 10
            ELSE IF digit >= Ord("A") /\ digit <= Ord("F")
                 THEN digit - Ord("A") + 10
            ELSE EOF
    IN  IF value = EOF THEN EOF
        ELSE IF value < base THEN value ELSE EOF

\* One iteration of the digit loop of dbg_strtol.
StrtolStep(str, len, base, st) ==
    IF st.done THEN st
    ELSE IF ~(SizeLt(st.pos, len) /\ Peek(str, st.pos) # 0)
         THEN [st EXCEPT !.done = TRUE]
    ELSE LET tmp == dbg_get_val(Peek(str, st.pos), base)
         IN  IF tmp = EOF THEN [st EXCEPT !.done = TRUE]
             ELSE [pos |-> st.pos + 1,
                   value |-> MulAdd32(st.value, base, tmp),
                   valid |-> TRUE,
                   done |-> FALSE]

RECURSIVE StrtolRun(_, _, _, _, _)
StrtolRun(str, len, base, st, n) ==
    IF st.done \/ n = 0 THEN st
    ELSE IF n = 1 THEN StrtolStep(str, len, base, st)
    ELSE StrtolRun(str, len, base,
                   StrtolRun(str, len, base, st, n \div 2), n - n \div 2)

\* dbg_strtol(str, len, base, &endptr): [value, endptr], endptr an offset
\* from str or NULL.
dbg_strtol(str, len, base) ==
    IF SizeLt(len, 1) THEN [value |-> Word(0), endptr |-> NULL]
    ELSE
    LET sign == IF Peek(str, 0) = Ord("-") THEN -1 ELSE 1
        pos1 == IF Peek(str, 0) = Ord("-") \/ Peek(str, 0) = Ord("+")
                THEN 1 ELSE 0
        hex  == /\ SizeLt(pos1 + 2, len)
                /\ Peek(str, pos1) = Ord("0")
                /\ (Peek(str, pos1 + 1) = Ord("x") \/ Peek(str, pos1 + 1) = Ord("X"))
        base1 == IF hex THEN 16 ELSE IF base = 0 THEN 10 ELSE base
        pos2 == IF hex THEN pos1 + 2 ELSE pos1
        st   == StrtolRun(str, len, base1,
                          [pos |-> pos2, value |-> Word(0),
                           valid |-> FALSE, done |-> FALSE],
                          Len(str) + 2)
    IN  IF ~st.valid THEN [value |-> Word(0), endptr |-> NULL]
        ELSE [value |-> IF sign = -1 THEN Neg32(st.value) ELSE st.value,
              endptr |-> st.pos]

(***************************************************************************)
(* Checksum and codecs                                                     *)
(***************************************************************************)
\* The sum modulo 256 of buf[lo..hi] (1-based), by halving.
RECURSIVE SumBytes(_, _, _)
SumBytes(buf, lo, hi) ==
    IF lo > hi THEN 0
    ELSE IF lo = hi THEN buf[lo] % 256
    ELSE LET mid == (lo + hi) \div 2
         IN  (SumBytes(buf, lo, mid) + SumBytes(buf, mid + 1, hi)) % 256

dbg_checksum(buf, len) == SumBytes(buf, 1, len)

\* dbg_enc_hex(buf, buf_len, data, data_len): EOF, or the characters written.
dbg_enc_hex(buf_len, data, data_len) ==
    IF SizeLt(buf_len, data_len * 2) THEN [status |-> EOF, buf |-> <<>>]
    ELSE [status |-> data_len * 2,
          buf |-> [i \in 1..(2 * data_len) |->
                     IF i % 2 = 1
                     THEN dbg_get_digit((data[(i + 1) \div 2] \div 16) % 16)
                     ELSE dbg_get_digit(data[i \div 2] % 16)]]

\* dbg_dec_hex(buf, buf_len, data, data_len): EOF, or 0 and the bytes decoded.
dbg_dec_hex(buf, buf_len, data_len) ==
    IF buf_len # data_len * 2 THEN [status |-> EOF, data |-> <<>>]
    ELSE IF \E i \in 0..(2 * data_len - 1) : dbg_get_val(Peek(buf, i), 16) = EOF
         THEN [status |-> EOF, data |-> <<>>]
    ELSE [status |-> 0,
          data |-> [p \in 1..data_len |->
                      (dbg_get_val(Peek(buf, 2 * p - 2), 16) * 16
                       + dbg_get_val(Peek(buf, 2 * p - 1), 16)) % 256]]

\* An escape that leaves the byte as it is.
XorNothing(b) == b

\* b ^ 0x20
Xor20(b) == IF (b \div 32) % 2 = 1 THEN b - 32 ELSE b + 32

\* One iteration of the loop of dbg_enc_bin.
EncBinStep(buf_len, data, data_len, st) ==
    IF st.done \/ st.data_pos >= data_len THEN [st EXCEPT !.done = TRUE]
    ELSE LET d == data[st.data_pos + 1]
         IN  IF d \in {Ord("$"), Ord("#"), Ord("}"), Ord("*")}
             THEN IF ~SizeLt(Len(st.buf) + 1, buf_len)
                  THEN [st EXCEPT !.done = TRUE, !.status = EOF]
                  ELSE [st EXCEPT !.buf = st.buf \o <<Ord("}"), Xor20(d)>>,
                                  !.data_pos = st.data_pos + 1]
             ELSE IF ~SizeLt(Len(st.buf), buf_len)
                  THEN [st EXCEPT !.done = TRUE, !.status = EOF]
                  ELSE [st EXCEPT !.buf = Append(st.buf, d),
                                  !.data_pos = st.data_pos + 1]

RECURSIVE EncBinRun(_, _, _, _, _)
EncBinRun(buf_len, data, data_len, st, n) ==
    IF st.done \/ n = 0 THEN st
    ELSE IF n = 1 THEN EncBinStep(buf_len, data, data_len, st)
    ELSE EncBinRun(buf_len, data, data_len,
                   EncBinRun(buf_len, data, data_len, st, n \div 2),
                   n - n \div 2)

\* dbg_enc_bin(buf, buf_len, data, data_len): EOF, or the bytes written.
dbg_enc_bin(buf_len, data, data_len) ==
    LET st == EncBinRun(buf_len, data, data_len,
                        [buf |-> <<>>, data_pos |-> 0, status |-> 0,
                         done |-> FALSE], data_len + 1)
    IN  IF st.status = EOF THEN [status |-> EOF, buf |-> <<>>]
        ELSE [status |-> Len(st.buf), buf |-> st.buf]

\* One iteration of the loop of dbg_dec_bin.  data holds the bytes written
\* so far; the rest of the caller's data[] keeps what it held.
DecBinStep(buf, buf_len, data_len, st) ==
    IF st.done \/ ~SizeLt(st.buf_pos, buf_len) THEN [st EXCEPT !.done = TRUE]
    ELSE IF st.data_pos >= data_len
         THEN [st EXCEPT !.done = TRUE, !.status = EOF]
    ELSE IF Peek(buf, st.buf_pos) = Ord("}")
         THEN IF ~SizeLt(st.buf_pos + 1, buf_len)
              THEN [st EXCEPT !.done = TRUE, !.status = EOF]
              ELSE [st EXCEPT !.data = Append(st.data, Xor20(Peek(buf, st.buf_pos + 1))),
                              !.data_pos = st.data_pos + 1,
                              !.buf_pos = st.buf_pos + 2]
    ELSE [st EXCEPT !.data = Append(st.data, Peek(buf, st.buf_pos)),
                    !.data_pos = st.data_pos + 1,
                    !.buf_pos = st.buf_pos + 1]

RECURSIVE DecBinRun(_, _, _, _, _)
DecBinRun(buf, buf_len, data_len, st, n) ==
    IF st.done \/ n = 0 THEN st
    ELSE IF n = 1 THEN DecBinStep(buf, buf_len, data_len, st)
    ELSE DecBinRun(buf, buf_len, data_len,
                   DecBinRun(buf, buf_len, data_len, st, n \div 2),
                   n - n \div 2)

\* dbg_dec_bin(buf, buf_len, data, data_len): EOF, or the number of bytes
\* decoded, and the bytes written to data.
dbg_dec_bin(buf, buf_len, data_len) ==
    LET st == DecBinRun(buf, buf_len, data_len,
                        [data |-> <<>>, data_pos |-> 0, buf_pos |-> 0,
                         status |-> 0, done |-> FALSE], data_len + 2)
    IN  [status |-> IF st.status = EOF THEN EOF ELSE st.data_pos,
         data |-> st.data]

(***************************************************************************)
(* Memory map (gdbstub_sys.c)                                              *)
(*                                                                         *)
(* A region is [base, size, image, data].  The buffer mem->data is held    *)
(* as the snapshot the loader put there (ImageByte(image, offset)) and     *)
(* the bytes written since that differ from it (data, a function from      *)
(* offsets to bytes).                                                      *)
(***************************************************************************)
RAMSTART == W32(\h3FFE, \h8000)
RAMLEN == W32(\h1, \h8000)

\* What the loader left in a region's buffer: the RAM image starts with
\* DE AD BE EF and holds the 0xEC filler elsewhere.
ImageByte(image, off) ==
    IF image = "ram"
    THEN IF off < 4 THEN << \hDE, \hAD, \hBE, \hEF >>[off + 1] ELSE \hEC
    ELSE (off * 17 + 1) % 256

DataAt(m, off) == IF off \in DOMAIN m.data THEN m.data[off] ELSE ImageByte(m.image, off)

\* A loop of dbg_find_mem that tests only the base of the region.
FindMemStopsAboveBase(m, addr) == ~Lt32(addr, m.base)

\* Whether the loop of dbg_find_mem stops at region m.
FindMemStops(m, addr) ==
    ~(Lt32(addr, m.base) \/ ~Lt32(addr, Add32(m.base, m.size)))

\* dbg_find_mem(addr): the index of the region found, 0 for NULL.
dbg_find_mem(mem, addr) ==
    IF \E i \in 1..Len(mem) : FindMemStops(mem[i], addr)
    THEN CHOOSE i \in 1..Len(mem) :
            /\ FindMemStops(mem[i], addr)
            /\ \A j \in 1..(i - 1) : ~FindMemStops(mem[j], addr)
    ELSE 0

\* A read that yields 0 outside every region instead of failing.
ReadbNoFault(mem, addr) ==
    IF dbg_find_mem(mem, addr) = 0 THEN [status |-> 0, val |-> 0]
    ELSE [status |-> 0,
          val |-> DataAt(mem[dbg_find_mem(mem, addr)],
                         Diff32(addr, mem[dbg_find_mem(mem, addr)].base))]

\* dbg_sys_mem_readb(addr, &val): [status, val].
dbg_sys_mem_readb(mem, addr) ==
    LET i == dbg_find_mem(mem, addr)
    IN  IF i = 0 THEN [status |-> -1, val |-> 0]
        ELSE [status |-> 0, val |-> DataAt(mem[i], Diff32(addr, mem[i].base))]

\* A store that is lost.
StoreNothing(m, off, val) == m

\* mem->data[off] = val.
StoreByte(m, off, val) ==
    [m EXCEPT !.data =
        IF val = ImageByte(m.image, off)
        THEN [o \in (DOMAIN m.data) \ {off} |-> m.data[o]]
        ELSE [o \in (DOMAIN m.data) \cup {off} |-> IF o = off THEN val ELSE m.data[o]]]

\* dbg_sys_mem_writeb(addr, val): [status, mem].
dbg_sys_mem_writeb(mem, addr, val) ==
    LET i == dbg_find_mem(mem, addr)
    IN  IF i = 0 THEN [status |-> -1, mem |-> mem]
        ELSE [status |-> 0,
              mem |-> [mem EXCEPT ![i] = StoreByte(mem[i], Diff32(addr, mem[i].base), val)]]

DATA_LEN == 64

\* dbg_mem_read(buf, buf_len, addr, len, enc): EOF, or the number of
\* characters written to buf, and those characters.  len is the int that
\* dbg_strtol returned, converted to size_t.
dbg_mem_read(mem, buf_len, addr, len) ==
    IF len.hi # 0 \/ len.lo > DATA_LEN THEN [status |-> EOF, buf |-> <<>>]
    ELSE IF \E pos \in 0..(len.lo - 1) :
                dbg_sys_mem_readb(mem, Add32(addr, Word(pos))).status # 0
         THEN [status |-> EOF, buf |-> <<>>]
    ELSE dbg_enc_hex(buf_len,
                     [p \in 1..len.lo |->
                        dbg_sys_mem_readb(mem, Add32(addr, Word(p - 1))).val],
                     len.lo)

\* One iteration of the write loop of dbg_mem_write.
MemWriteStep(data, addr, len, st) ==
    IF st.done \/ st.pos >= len THEN [st EXCEPT !.done = TRUE]
    ELSE LET w == dbg_sys_mem_writeb(st.mem, Add32(addr, Word(st.pos)),
                                     Peek(data, st.pos))
         IN  IF w.status # 0 THEN [st EXCEPT !.done = TRUE, !.status = EOF]
             ELSE [st EXCEPT !.mem = w.mem, !.pos = st.pos + 1]

RECURSIVE MemWriteRun(_, _, _, _, _)
MemWriteRun(data, addr, len, st, n) ==
    IF st.done \/ n = 0 THEN st
    ELSE IF n = 1 THEN MemWriteStep(data, addr, len, st)
    ELSE MemWriteRun(data, addr, len,
                     MemWriteRun(data, addr, len, st, n \div 2), n - n \div 2)

\* dbg_mem_write(buf, buf_len, addr, len, dec): [status, mem].  hexdec tells
\* whether dec is dbg_dec_hex (else dbg_dec_bin).  Bytes of data[] that dec
\* did not write are read from the uninitialised array.
dbg_mem_write(mem, buf, buf_len, addr, len, hexdec) ==
    IF len.hi # 0 \/ len.lo > DATA_LEN THEN [status |-> EOF, mem |-> mem]
    ELSE LET d == IF hexdec THEN dbg_dec_hex(buf, buf_len, len.lo)
                  ELSE dbg_dec_bin(buf, buf_len, len.lo)
         IN  IF d.status = EOF THEN [status |-> EOF, mem |-> mem]
             ELSE LET st == MemWriteRun(d.data, addr, len.lo,
                                        [mem |-> mem, pos |-> 0, status |-> 0,
                                         done |-> FALSE], len.lo + 1)
                  IN  [status |-> st.status, mem |-> st.mem]

(***************************************************************************)
(* Register block                                                          *)
(***************************************************************************)
NUM_SLOTS == 113

\* A conversion that writes the most significant byte first.
u32_to_hex_msb(i) ==
    LET src == << i.hi \div 256, i.hi % 256, i.lo \div 256, i.lo % 256 >>
    IN  [k \in 1..8 |->
            IF k % 2 = 1 THEN Str("0123456789abcdef")[(src[(k + 1) \div 2] \div 16) + 1]
            ELSE Str("0123456789abcdef")[(src[k \div 2] % 16) + 1]]

\* sprintf(buff, "%02x%02x%02x%02x", src[0], src[1], src[2], src[3])
u32_to_hex(i) ==
    LET src == BytesOf32(i)
    IN  [k \in 1..8 |->
            IF k % 2 = 1 THEN digits[(src[(k + 1) \div 2] \div 16) + 1]
            ELSE digits[(src[k \div 2] % 16) + 1]]

\* 0x7878787878787878
XXXX == [k \in 1..8 |-> Ord("x")]

isspace(c) == c = 32 \/ (c >= 9 /\ c <= 13)

\* The digits "%x" converts, from s[pos] on: [n, value, over].
RECURSIVE ScanHexDigits(_, _, _)
ScanHexDigits(s, pos, acc) ==
    IF pos > Len(s) \/ dbg_get_val(s[pos], 16) = EOF THEN acc
    ELSE ScanHexDigits(s, pos + 1,
                       [n |-> acc.n + 1,
                        value |-> MulAdd32(acc.value, 16, dbg_get_val(s[pos], 16)),
                        over |-> acc.over \/ acc.value.hi >= 4096])

\* sscanf(buff, "%x", &x) on the string s: whether it converted, and the
\* value stored.  A value that does not fit is stored truncated
\* (ovf = "wrap", unsigned long of 64 bits) or as ULONG_MAX
\* (ovf = "saturate", unsigned long of 32 bits).
sscanf_x(s, ovf) ==
    LET ws == IF \E i \in 1..Len(s) : ~isspace(s[i])
              THEN (CHOOSE i \in 1..Len(s) :
                       ~isspace(s[i]) /\ \A j \in 1..(i - 1) : isspace(s[j])) - 1
              ELSE Len(s)
        t == SubSeq(s, ws + 1, Len(s))
        neg == Len(t) >= 1 /\ t[1] = Ord("-")
        p1 == IF Len(t) >= 1 /\ t[1] \in {Ord("-"), Ord("+")} THEN 2 ELSE 1
        pfx == /\ Len(t) >= p1 + 2
               /\ t[p1] = Ord("0")
               /\ t[p1 + 1] \in {Ord("x"), Ord("X")}
               /\ dbg_get_val(t[p1 + 2], 16) # EOF
        p2 == IF pfx THEN p1 + 2 ELSE p1
        r == ScanHexDigits(t, p2, [n |-> 0, value |-> Word(0), over |-> FALSE])
        v == IF r.over /\ ovf = "saturate" THEN W32(65535, 65535)
             ELSE IF neg THEN Neg32(r.value) ELSE r.value
    IN  [matched |-> r.n > 0, value |-> v]

\* hex_to_u32(i), i the eight bytes b of the packet buffer: buff[8] is not
\* initialised, buff[9] = 0 ends the string, and x is not initialised when
\* sscanf converts nothing.
hex_to_u32(b, ovf) ==
    LET buff == b \o <<stk>>
        n == IF \E i \in 1..9 : buff[i] = 0
             THEN (CHOOSE i \in 1..9 : buff[i] = 0 /\ \A j \in 1..(i - 1) : buff[j] # 0) - 1
             ELSE 9
        r == sscanf_x(SubSeq(buff, 1, n), ovf)
    IN  IF r.matched THEN r.value ELSE W32(stk * 257, stk * 257)

\* ptr[k] of a uint64_t *ptr == pkt_buf: the eight bytes at offset 8 * k.
Slot(buf, k) == [j \in 1..8 |-> Peek(buf, 8 * k + j - 1)]

\* The register of a slot of the block, as `g` lays it out; "" for a slot
\* written as xxxxxxxx.
SlotReg(k) ==
    IF k = 0 THEN "pc"
    ELSE IF k = 36 THEN "sar"
    ELSE IF k = 37 THEN "litbase"
    ELSE IF k = 40 THEN "sr176"
    ELSE IF k = 42 THEN "ps"
    ELSE IF k >= 97 /\ k < 97 + 16 THEN "a"
    ELSE ""

RegValue(r, k) ==
    IF SlotReg(k) = "a" THEN r.a[k - 97] ELSE r[SlotReg(k)]

\* The 113 * sizeof(uint64_t) bytes `g` writes to pkt_buf.
EncodeRegs(r) ==
    [i \in 1..(NUM_SLOTS * 8) |->
        LET k == (i - 1) \div 8
            j == ((i - 1) % 8) + 1
        IN  IF SlotReg(k) = "" THEN XXXX[j] ELSE u32_to_hex(RegValue(r, k))[j]]

\* The registers `G` stores from pkt_buf.
DecodeRegs(r, buf, ovf) ==
    [r EXCEPT !.pc = hex_to_u32(Slot(buf, 0), ovf),
              !.sar = hex_to_u32(Slot(buf, 36), ovf),
              !.litbase = hex_to_u32(Slot(buf, 37), ovf),
              !.sr176 = hex_to_u32(Slot(buf, 40), ovf),
              !.ps = hex_to_u32(Slot(buf, 42), ovf),
              !.a = [i \in 0..15 |-> hex_to_u32(Slot(buf, 97 + i), ovf)]]

\* A switch of `p` that takes the register number for a decimal one.
ReadRegSlotDecimal(r, n) ==
    IF n.hi # 0 THEN [k \in 1..8 |-> Ord("x")]
    ELSE IF n.lo = 0 THEN u32_to_hex(r.pc)
    ELSE IF n.lo = 54 THEN u32_to_hex(r.sar)
    ELSE IF n.lo = 55 THEN u32_to_hex(r.litbase)
    ELSE IF n.lo = 64 THEN u32_to_hex(r.sr176)
    ELSE IF n.lo = 66 THEN u32_to_hex(r.ps)
    ELSE [k \in 1..8 |-> Ord("x")]

\* The switch of `p`: the eight bytes written to *p for register number n.
ReadRegSlot(r, n) ==
    IF n.hi # 0 THEN XXXX
    ELSE IF n.lo = 0 THEN u32_to_hex(r.pc)
    ELSE IF n.lo = 36 THEN u32_to_hex(r.sar)
    ELSE IF n.lo = 37 THEN u32_to_hex(r.litbase)
    ELSE IF n.lo = 40 THEN u32_to_hex(r.sr176)
    ELSE IF n.lo = 42 THEN u32_to_hex(r.ps)
    ELSE IF n.lo >= 97 /\ n.lo <= 112 THEN u32_to_hex(r.a[n.lo - 97])
    ELSE XXXX

(***************************************************************************)
(* Byte stream (gdbstub_sys.c) and packet functions                        *)
(*                                                                         *)
(* A channel ch is [inp, io, eof_at]: stdin, the transcript and the phase  *)
(* of the first end of file.  Transcript events are [k, d]:                *)
(*   "frame"  a frame whose two checksum characters were read; d is the    *)
(*            payload, '#' and the two characters;                         *)
(*   "ack"    d is the '+' or '-' dbg_recv_packet wrote;                   *)
(*   "reply"  d is the bytes one dbg_send_packet wrote;                    *)
(*   "ackin"  d is the byte dbg_recv_ack read.                             *)
(***************************************************************************)
PKT_BUF_LEN == 1024

Event(kind, data) == [k |-> kind, d |-> data]

\* dbg_sys_getc(): getchar() & 0xff; at end of file getchar() is EOF.
dbg_sys_getc(ch, phase) ==
    IF ch.inp = <<>>
    THEN [c |-> 255,
          ch |-> [ch EXCEPT !.eof_at = IF @ = "none" THEN phase ELSE @]]
    ELSE [c |-> Head(ch.inp), ch |-> [ch EXCEPT !.inp = Tail(@)]]

\* dbg_sys_putchar / dbg_write on stdout, recorded as one event.
PutEvent(ch, kind, data) == [ch EXCEPT !.io = Append(@, Event(kind, data))]

\* dbg_recv_ack(): [status, ch].
dbg_recv_ack(ch) ==
    LET g == dbg_sys_getc(ch, "ack")
    IN  [status |-> IF g.c = Ord("+") THEN 0 ELSE IF g.c = Ord("-") THEN 1 ELSE EOF,
         ch |-> PutEvent(g.ch, "ackin", <<g.c>>)]

\* A frame sent with 00 in place of the checksum.
SentFrameNoChecksum(pkt_data) ==
    <<Ord("$")>> \o pkt_data \o <<Ord("#"), Ord("0"), Ord("0")>>

\* The bytes dbg_send_packet writes for pkt_data.
SentFrame(pkt_data) ==
    <<Ord("$")>> \o pkt_data \o <<Ord("#")>>
        \o dbg_enc_hex(2, <<dbg_checksum(pkt_data, Len(pkt_data))>>, 1).buf

\* A sender that sends the packet once more when it is answered '-'.
SendPacketRetransmits(ch, pkt_data) ==
    IF dbg_recv_ack(PutEvent(ch, "reply", SentFrame(pkt_data))).status = 1
    THEN dbg_recv_ack(PutEvent(dbg_recv_ack(PutEvent(ch, "reply", SentFrame(pkt_data))).ch,
                               "reply", SentFrame(pkt_data))).ch
    ELSE dbg_recv_ack(PutEvent(ch, "reply", SentFrame(pkt_data))).ch

\* dbg_send_packet(pkt_data, pkt_len): the channel afterwards.
dbg_send_packet(ch, pkt_data) ==
    dbg_recv_ack(PutEvent(ch, "reply", SentFrame(pkt_data))).ch

\* buf with bytes stored from offset off on.
PutBuf(buf, off, bytes) ==
    [i \in 1..Len(buf) |->
        IF i > off /\ i <= off + Len(bytes) THEN bytes[i - off] ELSE buf[i]]

\* The first index of byte c in s, 0 when there is none.
IndexOf(s, c) ==
    IF \E i \in 1..Len(s) : s[i] = c
    THEN CHOOSE i \in 1..Len(s) : s[i] = c /\ \A j \in 1..(i - 1) : s[j] # c
    ELSE 0

\* The loop of dbg_recv_packet that waits for '$': the channel when the loop
\* is left, or spin when it never is (end of file reads as 0xff for ever).
RecvWaitStart(ch) ==
    LET i == IndexOf(ch.inp, Ord("$"))
    IN  IF i = 0
        THEN [spin |-> TRUE,
              ch |-> [ch EXCEPT !.inp = <<>>,
                                !.eof_at = IF @ = "none" THEN "wait_start" ELSE @]]
        ELSE [spin |-> FALSE,
              ch |-> [ch EXCEPT !.inp = SubSeq(@, i + 1, Len(@))]]

\* A loop that reads until '#' and takes a payload that fills the buffer
\* for an overflow.
RecvPayloadFullOverflows(ch, buf, buf_len) ==
    LET i == IndexOf(ch.inp, Ord("#"))
        n == IF i = 0 THEN Len(ch.inp) ELSE i - 1
    IN  IF n >= buf_len \/ i = 0
        THEN [status |-> EOF, len |-> IF n < buf_len THEN n ELSE buf_len,
              buf |-> PutBuf(buf, 0, ch.inp),
              ch |-> [ch EXCEPT !.inp = <<>>]]
        ELSE [status |-> 0, len |-> n,
              buf |-> PutBuf(buf, 0, SubSeq(ch.inp, 1, n)),
              ch |-> [ch EXCEPT !.inp = SubSeq(@, i + 1, Len(@))]]

\* The loop of dbg_recv_packet that reads until '#': [status, buf, len, ch].
RecvPayload(ch, buf, buf_len) ==
    LET i == IndexOf(ch.inp, Ord("#"))
        n == IF i = 0 THEN Len(ch.inp) ELSE i - 1
    IN  IF n > buf_len
        THEN \* packet buffer overflow: the byte after the last one stored is read
             [status |-> EOF, len |-> buf_len,
              buf |-> PutBuf(buf, 0, SubSeq(ch.inp, 1, buf_len)),
              ch |-> [ch EXCEPT !.inp = SubSeq(@, buf_len + 2, Len(@))]]
        ELSE IF i = 0
        THEN \* end of file: 0xff is stored until the buffer is full
             [status |-> EOF, len |-> buf_len,
              buf |-> PutBuf(buf, 0, ch.inp \o [k \in 1..(buf_len - n) |-> 255]),
              ch |-> [ch EXCEPT !.inp = <<>>,
                                !.eof_at = IF @ = "none" THEN "payload" ELSE @]]
        ELSE [status |-> 0, len |-> n,
              buf |-> PutBuf(buf, 0, SubSeq(ch.inp, 1, n)),
              ch |-> [ch EXCEPT !.inp = SubSeq(@, i + 1, Len(@))]]

\* dbg_read(buf, buf_len, len) for len = 2 in dbg_recv_packet: a byte 0xff
\* compares equal to EOF in the char c.
dbg_read2(ch) ==
    LET g1 == dbg_sys_getc(ch, "csum")
        g2 == dbg_sys_getc(g1.ch, "csum")
    IN  IF g1.c = 255 THEN [status |-> EOF, buf |-> <<>>, ch |-> g1.ch]
        ELSE IF g2.c = 255 THEN [status |-> EOF, buf |-> <<>>, ch |-> g2.ch]
        ELSE [status |-> 0, buf |-> <<g1.c, g2.c>>, ch |-> g2.ch]

\* A receiver that takes every checksum for the right one.
AnyChecksum(actual_csum, expected_csum) == FALSE

\* actual_csum != expected_csum
ChecksumDiffers(actual_csum, expected_csum) == actual_csum # expected_csum

\* The end of dbg_recv_packet, from "Receive the checksum" on: [status, ch].
RecvChecksum(ch, buf, len) ==
    LET r == dbg_read2(ch)
        d == dbg_dec_hex(r.buf, 2, 1)
        ch1 == PutEvent(r.ch, "frame", SubSeq(buf, 1, len) \o <<Ord("#")>> \o r.buf)
    IN  IF r.status = EOF THEN [status |-> EOF, ch |-> r.ch]
        ELSE IF d.status = EOF THEN [status |-> EOF, ch |-> ch1]
        ELSE IF ChecksumDiffers(dbg_checksum(buf, len), d.data[1])
             THEN [status |-> EOF, ch |-> PutEvent(ch1, "ack", <<Ord("-")>>)]
        ELSE [status |-> 0, ch |-> PutEvent(ch1, "ack", <<Ord("+")>>)]

\* dbg_recv_packet(pkt_buf, pkt_buf_len, &pkt_len): [spin, status, buf, len, ch].
dbg_recv_packet(ch, buf, old_len, buf_len) ==
    LET w == RecvWaitStart(ch)
        p == RecvPayload(w.ch, buf, buf_len)
        c == RecvChecksum(p.ch, p.buf, p.len)
    IN  IF w.spin
        THEN [spin |-> TRUE, status |-> EOF, buf |-> buf, len |-> old_len, ch |-> w.ch]
        ELSE IF p.status = EOF
        THEN [spin |-> FALSE, status |-> EOF, buf |-> p.buf, len |-> p.len, ch |-> p.ch]
        ELSE [spin |-> FALSE, status |-> c.status, buf |-> p.buf, len |-> p.len, ch |-> c.ch]

\* dbg_send_ok_packet
OK_PACKET == Str("OK")

\* What dbg_send_error_packet(buf, buf_len, 0) and
\* dbg_send_signal_packet(buf, buf_len, 0) leave in buf[0..2].
StatusPacket(letter, code) == <<Ord(letter)>> \o dbg_enc_hex(PKT_BUF_LEN - 1, <<code>>, 1).buf

(***************************************************************************)
(* Argument tokens of dbg_main                                             *)
(***************************************************************************)
\* The bytes from pointer ptr on.
From(buf, ptr) == IF ptr >= Len(buf) THEN <<>> ELSE SubSeq(buf, ptr + 1, Len(buf))

\* token_remaining_buf
token_remaining_buf(len, ptr_next) == len - ptr_next

\* token_expect_seperator(c): [ok, ptr].
token_expect_seperator(buf, ptr_next, c) ==
    IF ptr_next = NULL \/ Peek(buf, ptr_next) # Ord(c)
    THEN [ok |-> FALSE, ptr |-> ptr_next]
    ELSE [ok |-> TRUE, ptr |-> ptr_next + 1]

\* token_expect_integer_arg(arg): [ok, arg, ptr].
token_expect_integer_arg(buf, len, ptr_next) ==
    LET r == dbg_strtol(From(buf, ptr_next), token_remaining_buf(len, ptr_next), 16)
    IN  IF r.endptr = NULL THEN [ok |-> FALSE, arg |-> r.value, ptr |-> NULL]
        ELSE [ok |-> TRUE, arg |-> r.value, ptr |-> ptr_next + r.endptr]

\* ptr_next += 1; addr ',' length of `m`, `M` and `X`: [ok, addr, length, ptr].
ParseAddrLength(buf, len) ==
    LET a == token_expect_integer_arg(buf, len, 1)
        s == token_expect_seperator(buf, a.ptr, ",")
        l == token_expect_integer_arg(buf, len, s.ptr)
    IN  IF ~a.ok \/ ~s.ok \/ ~l.ok
        THEN [ok |-> FALSE, addr |-> a.arg, length |-> Word(0), ptr |-> NULL]
        ELSE [ok |-> TRUE, addr |-> a.arg, length |-> l.arg, ptr |-> l.ptr]

(***************************************************************************)
(* The host: what arrives on stdin                                         *)
(***************************************************************************)
MaxFrames == 2

\* The two checksum characters a host computes for a payload.
HostChecksum(payload) ==
    LET sum == SumBytes(payload, 1, Len(payload))
    IN  << Str("0123456789abcdef")[(sum \div 16) + 1],
           Str("0123456789abcdef")[(sum % 16) + 1] >>

\* $payload#cc, with the checksum characters cc as given.
FrameWith(payload, cc) == <<Ord("$")>> \o payload \o <<Ord("#")>> \o cc

\* A well-formed frame.
Frame(payload) == FrameWith(payload, HostChecksum(payload))

\* A well-formed frame, and the '+' the host sends for the reply.
Acked(payload) == Frame(payload) \o <<Ord("+")>>

\* The frames of a session about framing.
FramingSuite ==
    { Acked(Str("?")),
      Acked(Str("M3ffe8004,2:1234")),
      FrameWith(Str("m3ffe8000,4"), Str("00")),
      FrameWith(Str("M3ffe8004,2:1234"), Str("00")),
      FrameWith(Str("?"), Str("zz")),
      Str("+-junk"),
      Str("$m3f"),
      Str("$?#3") }

\* A block of n bytes, in hex.
HexBlock(n) == [i \in 1..(2 * n) |-> Str("0123456789abcdef")[((i * 7) % 16) + 1]]

\* The frames of a session about the register block.
RegisterSuite(r) ==
    { Acked(Str("g")),
      Acked(Str("G") \o EncodeRegs(r)),
      FrameWith(Str("G") \o EncodeRegs(r), Str("00")),
      Acked(Str("G")),
      Acked(Str("p0")),
      Acked(Str("P0=00000000")),
      Acked(Str("?")) }

\* The frames of a session reading single registers.
SingleRegisterSuite ==
    { Acked(Str("p0")), Acked(Str("p24")), Acked(Str("p25")),
      Acked(Str("p28")), Acked(Str("p2a")), Acked(Str("p61")),
      Acked(Str("p70")), Acked(Str("p71")), Acked(Str("p1")),
      Acked(Str("p-1")), Acked(Str("p")) }

\* The frames of a session writing memory and reading it back.
MemoryWriteSuite ==
    { Acked(Str("M3ffe8004,2:1234")),
      Acked(Str("m3ffe8004,2")),
      Acked(Str("X3ffe8004,2:}]a")),
      FrameWith(Str("X3ffe8004,2:}]a"), Str("00")),
      Acked(Str("M3ffe8010,40:") \o HexBlock(64)),
      Acked(Str("m3ffe8010,40")),
      Acked(Str("M40000006,4:a1b2c3d4")),
      Acked(Str("m40000006,2")) }

\* The frames of a session reading memory.
MemoryReadSuite ==
    { Acked(Str("m3ffe8000,4")),
      Acked(Str("m0,4")),
      Acked(Str("m0,0")),
      Acked(Str("m3ffe8000,0")),
      Acked(Str("m3ffe8000,41")),
      Acked(Str("m40000006,4")),
      Acked(Str("m3ffffffe,4")),
      Acked(Str("m3ffe8000")) }

\* The frames of a session writing data of another length than stated.
WriteLengthSuite ==
    { Acked(Str("X3ffe8004,2:a")),
      Acked(Str("X3ffe8004,2:abc")),
      Acked(Str("M3ffe8004,2:12")),
      Acked(Str("M3ffe8004,2:123456")),
      Acked(Str("X3ffe8004,2:}]a")),
      Acked(Str("m3ffe8004,2")) }

\* The frames of a session whose checksum characters arrive with one bit
\* flipped: 'f' as 'F', 'f' as 'g', '3' as '7'.
ChecksumSuite ==
    { FrameWith(Str("?"), Str("3F")),
      FrameWith(Str("?"), Str("3g")),
      FrameWith(Str("?"), Str("7f")),
      Acked(Str("?")) }

\* A payload of n bytes that asks for the halt reason.
LongPayload(n) == Str("?") \o [k \in 1..(n - 1) |-> Ord("x")]

\* The frames of a session with payloads that fill and that overflow the
\* packet buffer.
LongSuite ==
    { Acked(LongPayload(PKT_BUF_LEN)),
      Frame(LongPayload(PKT_BUF_LEN + 1)),
      Acked(Str("?")) }

\* The frames of a session whose host answers a reply with '-', with
\* another byte, or with '+'.
AckSuite ==
    { Frame(Str("?")) \o Str("-"),
      Frame(Str("?")) \o Str("x"),
      Acked(Str("?")),
      Frame(Str("D")) \o Str("-") }

\* The frames of a session that asks the same query before and after
\* another one.
RepeatSuite ==
    { Acked(Str("q")),
      Acked(Str("qAttached")) \o Acked(Str("q")),
      Acked(Str("qSupported")) }

\* The frames of a session of queries and session control.
ControlSuite ==
    { Acked(Str("qSupported:swbreak+;hwbreak+")),
      Acked(Str("qAttached")),
      Acked(Str("q")),
      Acked(Str("?")),
      Acked(Str("zZZ")),
      Frame(Str("")),
      Frame(Str("c")),
      Frame(Str("s")),
      Acked(Str("D")) }

Suites(r) ==
    { FramingSuite, RegisterSuite(r), SingleRegisterSuite, MemoryWriteSuite,
      MemoryReadSuite, WriteLengthSuite, ChecksumSuite, LongSuite, AckSuite,
      RepeatSuite, ControlSuite }

\* The streams of n frames of a suite.
RECURSIVE Streams(_, _)
Streams(suite, n) ==
    IF n = 0 THEN { <<>> }
    ELSE { f \o t : f \in suite, t \in Streams(suite, n - 1) }

(***************************************************************************)
(* Initial state: what the loader left (gdbstub_sys.c)                     *)
(***************************************************************************)
\* The register files the loader may leave, each with the byte that fills
\* the uninitialised stack of that run.
Loads ==
    { [stk |-> 0,
       regs |-> [pc |-> W32(\h4010, \h569C), ps |-> W32(\h0000, \h0030),
                 sar |-> W32(\h0000, \h001F), litbase |-> W32(\h0000, \h0000),
                 sr176 |-> W32(\hFEDC, \hBA98),
                 a |-> [i \in 0..15 |-> W32(\h3FFE + i, \h8000 + 16 * i + 5)]]],
      [stk |-> Ord("5"),
       regs |-> [pc |-> W32(\h0000, \h0001), ps |-> W32(\h8000, \h0000),
                 sar |-> W32(\hFFFF, \hFFFF), litbase |-> W32(\h1234, \h5678),
                 sr176 |-> W32(\h0A0B, \h0C0D),
                 a |-> [i \in 0..15 |-> W32(\h1111 * i, \hABC0 + i)]]] }

\* The RAM region, and one region of the ELF image right after it.
Memory0 ==
    << [base |-> RAMSTART, size |-> RAMLEN, image |-> "ram", data |-> <<>>],
       [base |-> W32(\h4000, \h0000), size |-> W32(\h0000, \h0008),
        image |-> "elf", data |-> <<>>] >>

Init ==
    /\ \E l \in Loads : stk = l.stk /\ regs = l.regs
    /\ memory = Memory0
    /\ pkt_buf = [i \in 1..PKT_BUF_LEN |-> stk]
    /\ pkt_len = 0
    /\ pc = "recv"
    /\ \E suite \in Suites(regs) : inp \in Streams(suite, MaxFrames)
    /\ io = <<>>
    /\ eof_at = "none"

(***************************************************************************)
(* dbg_main                                                                *)
(*                                                                         *)
(* pc: "recv" before dbg_recv_packet, "dispatch" after a packet was        *)
(* received, "wait_start" in the first loop of dbg_recv_packet for ever,   *)
(* "returned" after dbg_main returned, "exited" after exit(0).             *)
(***************************************************************************)
Chan == [inp |-> inp, io |-> io, eof_at |-> eof_at]

SetChan(ch) == inp' = ch.inp /\ io' = ch.io /\ eof_at' = ch.eof_at

\* status = dbg_recv_packet(...); if (status == EOF) break;
RecvPacket ==
    /\ pc = "recv"
    /\ LET r == dbg_recv_packet(Chan, pkt_buf, pkt_len, PKT_BUF_LEN)
       IN  /\ SetChan(r.ch)
           /\ pkt_buf' = r.buf
           /\ pkt_len' = r.len
           /\ pc' = IF r.spin THEN "wait_start"
                    ELSE IF r.status = EOF THEN "returned"
                    ELSE "dispatch"
    /\ UNCHANGED <<regs, memory, stk>>

\* if (pkt_len == 0) continue;
EmptyPacket ==
    /\ pc = "dispatch"
    /\ pkt_len = 0
    /\ pc' = "recv"
    /\ UNCHANGED <<regs, memory, pkt_buf, pkt_len, inp, io, eof_at, stk>>

\* case c: of switch (pkt_buf[0])
Command(c) == pc = "dispatch" /\ pkt_len # 0 /\ pkt_buf[1] = Ord(c)

\* error: dbg_send_error_packet(pkt_buf, sizeof(pkt_buf), 0x00);
SendError(ch, buf) ==
    /\ SetChan(dbg_send_packet(ch, StatusPacket("E", 0)))
    /\ pkt_buf' = PutBuf(buf, 0, StatusPacket("E", 0))
    /\ pc' = "recv"

\* !strncmp(&pkt_buf[1], str, n), n the length of str
StrncmpEq(buf, str) == \A i \in 1..Len(str) : Peek(buf, i) = str[i]

CmdQuery ==
    /\ Command("q")
    /\ SetChan(dbg_send_packet(Chan,
            IF StrncmpEq(pkt_buf, Str("Supported"))
            THEN Str("swbreak+;hwbreak+;PacketSize=FF")
            ELSE IF StrncmpEq(pkt_buf, Str("Attached")) THEN Str("1")
            ELSE <<>>))
    /\ pc' = "recv"
    /\ UNCHANGED <<regs, memory, pkt_buf, pkt_len, stk>>

CmdReadRegs ==
    /\ Command("g")
    /\ pkt_buf' = PutBuf(pkt_buf, 0, EncodeRegs(regs))
    /\ pkt_len' = NUM_SLOTS * 8
    /\ SetChan(dbg_send_packet(Chan, EncodeRegs(regs)))
    /\ pc' = "recv"
    /\ UNCHANGED <<regs, memory, stk>>

\* What sscanf stores for a value that does not fit depends on the C library.
CmdWriteRegs ==
    /\ Command("G")
    /\ \E ovf \in {"wrap", "saturate"} : regs' = DecodeRegs(regs, pkt_buf, ovf)
    /\ SetChan(dbg_send_packet(Chan, OK_PACKET))
    /\ pc' = "recv"
    /\ UNCHANGED <<memory, pkt_buf, pkt_len, stk>>

\* The reply is sent, and then control goes to error.
CmdReadReg ==
    /\ Command("p")
    /\ \E n \in {token_expect_integer_arg(pkt_buf, pkt_len, 1)} :
       \E buf \in {PutBuf(pkt_buf, 0, ReadRegSlot(regs, n.arg))} :
          IF ~n.ok THEN SendError(Chan, pkt_buf)
          ELSE SendError(dbg_send_packet(Chan, SubSeq(buf, 1, 8)), buf)
    /\ UNCHANGED <<regs, memory, pkt_len, stk>>

\* A `P` that stores 0 in pc and answers OK.
CmdWriteRegStores ==
    /\ Command("P")
    /\ regs' = [regs EXCEPT !.pc = Word(0)]
    /\ SetChan(dbg_send_packet(Chan, OK_PACKET))
    /\ pc' = "recv"
    /\ UNCHANGED <<memory, pkt_buf, pkt_len, stk>>

CmdWriteReg ==
    /\ Command("P")
    /\ SendError(Chan, pkt_buf)
    /\ UNCHANGED <<regs, memory, pkt_len, stk>>

CmdReadMem ==
    /\ Command("m")
    /\ \E a \in {ParseAddrLength(pkt_buf, pkt_len)} :
       \E r \in {dbg_mem_read(memory, PKT_BUF_LEN, a.addr, a.length)} :
          IF ~a.ok \/ r.status = EOF THEN SendError(Chan, pkt_buf)
          ELSE /\ SetChan(dbg_send_packet(Chan, r.buf))
               /\ pkt_buf' = PutBuf(pkt_buf, 0, r.buf)
               /\ pc' = "recv"
    /\ UNCHANGED <<regs, memory, pkt_len, stk>>

\* case 'M' (hexdec) and case 'X'.
WriteMem(hexdec) ==
    \E a \in {ParseAddrLength(pkt_buf, pkt_len)} :
    \E s \in {token_expect_seperator(pkt_buf, a.ptr, ":")} :
       IF ~a.ok \/ ~s.ok THEN SendError(Chan, pkt_buf) /\ memory' = memory
       ELSE \E w \in {dbg_mem_write(memory, From(pkt_buf, s.ptr),
                                    token_remaining_buf(pkt_len, s.ptr),
                                    a.addr, a.length, hexdec)} :
               /\ memory' = w.mem
               /\ IF w.status = EOF THEN SendError(Chan, pkt_buf)
                  ELSE /\ SetChan(dbg_send_packet(Chan, OK_PACKET))
                       /\ pkt_buf' = pkt_buf
                       /\ pc' = "recv"

CmdWriteMem ==
    /\ Command("M")
    /\ WriteMem(TRUE)
    /\ UNCHANGED <<regs, pkt_len, stk>>

CmdWriteMemBin ==
    /\ Command("X")
    /\ WriteMem(FALSE)
    /\ UNCHANGED <<regs, pkt_len, stk>>

\* dbg_send_ok_packet(NULL, 0); exit(0);
CmdDetach ==
    /\ Command("D")
    /\ SetChan(dbg_send_packet(Chan, OK_PACKET))
    /\ pc' = "exited"
    /\ UNCHANGED <<regs, memory, pkt_buf, pkt_len, stk>>

\* A `c` case that breaks to the packet loop.
CmdContinueLoops ==
    /\ Command("c")
    /\ pc' = "recv"
    /\ UNCHANGED <<regs, memory, pkt_buf, pkt_len, inp, io, eof_at, stk>>

\* dbg_continue(); return 0;
CmdContinue ==
    /\ Command("c")
    /\ pc' = "returned"
    /\ UNCHANGED <<regs, memory, pkt_buf, pkt_len, inp, io, eof_at, stk>>

\* dbg_step(); return 0;
CmdStep ==
    /\ Command("s")
    /\ pc' = "returned"
    /\ UNCHANGED <<regs, memory, pkt_buf, pkt_len, inp, io, eof_at, stk>>

CmdHaltReason ==
    /\ Command("?")
    /\ SetChan(dbg_send_packet(Chan, StatusPacket("S", 0)))
    /\ pkt_buf' = PutBuf(pkt_buf, 0, StatusPacket("S", 0))
    /\ pc' = "recv"
    /\ UNCHANGED <<regs, memory, pkt_len, stk>>

\* default: dbg_send_packet(NULL, 0);
CmdUnsupported ==
    /\ pc = "dispatch"
    /\ pkt_len # 0
    /\ pkt_buf[1] \notin { Ord("q"), Ord("g"), Ord("G"), Ord("p"), Ord("P"),
                           Ord("m"), Ord("M"), Ord("X"), Ord("D"), Ord("c"),
                           Ord("s"), Ord("?") }
    /\ SetChan(dbg_send_packet(Chan, <<>>))
    /\ pc' = "recv"
    /\ UNCHANGED <<regs, memory, pkt_buf, pkt_len, stk>>

Next ==
    \/ RecvPacket
    \/ EmptyPacket
    \/ CmdQuery
    \/ CmdReadRegs
    \/ CmdWriteRegs
    \/ CmdReadReg
    \/ CmdWriteReg
    \/ CmdReadMem
    \/ CmdWriteMem
    \/ CmdWriteMemBin
    \/ CmdDetach
    \/ CmdContinue
    \/ CmdStep
    \/ CmdHaltReason
    \/ CmdUnsupported

Spec == Init /\ [][Next]_vars

(***************************************************************************)
(* The codecs on their own: a caller hands a byte string to an encoder or  *)
(* a decoder.  inp holds the bytes handed over, io what each call          *)
(* returned, pc the calls made so far.                                     *)
(***************************************************************************)
MaxCodecLen == 3

\* The bytes the strings are made of: the four the binary codec escapes,
\* ']' (which is '}' ^ 0x20), a hex digit, a letter that is none, and a
\* byte above 0x7f.
CodecBytes ==
    { Ord("$"), Ord("#"), Ord("}"), Ord("*"), Ord("]"), Ord("a"), Ord("G"), \hE1 }

\* The byte strings of at most n bytes.
RECURSIVE ByteStrings(_)
ByteStrings(n) ==
    IF n = 0 THEN { <<>> }
    ELSE ByteStrings(n - 1)
            \cup { Append(b, c) : b \in ByteStrings(n - 1), c \in CodecBytes }

\* What a call returned: its size argument, its return value and the bytes
\* it wrote.
Returned(kind, arg, status, out) ==
    Event(kind, [arg |-> arg, status |-> status, out |-> out])

CodecInit ==
    /\ \E l \in Loads : l.stk = 0 /\ stk = l.stk /\ regs = l.regs
    /\ memory = Memory0
    /\ pkt_buf = [i \in 1..PKT_BUF_LEN |-> stk]
    /\ pkt_len = 0
    /\ pc = "codec"
    /\ inp \in ByteStrings(MaxCodecLen)
    /\ io = <<>>
    /\ eof_at = "none"

\* dbg_enc_hex(buf, buf_len, inp, |inp|)
EncHex ==
    /\ pc = "codec"
    /\ \E buf_len \in {2 * Len(inp), PKT_BUF_LEN} :
       \E r \in {dbg_enc_hex(buf_len, inp, Len(inp))} :
          io' = <<Returned("enc_hex", buf_len, r.status, r.buf)>>
    /\ pc' = "enc_hex"
    /\ UNCHANGED <<regs, memory, pkt_buf, pkt_len, inp, eof_at, stk>>

\* dbg_dec_hex of what dbg_enc_hex wrote, with data_len = |inp|
DecHexEncoded ==
    /\ pc = "enc_hex"
    /\ \E r \in {dbg_dec_hex(io[1].d.out, Len(io[1].d.out), Len(inp))} :
          io' = Append(io, Returned("dec_hex_enc", Len(inp), r.status, r.data))
    /\ pc' = "done"
    /\ UNCHANGED <<regs, memory, pkt_buf, pkt_len, inp, eof_at, stk>>

\* dbg_dec_hex(inp, |inp|, data, data_len)
DecHex ==
    /\ pc = "codec"
    /\ \E data_len \in 0..MaxCodecLen :
       \E r \in {dbg_dec_hex(inp, Len(inp), data_len)} :
          io' = <<Returned("dec_hex", data_len, r.status, r.data)>>
    /\ pc' = "done"
    /\ UNCHANGED <<regs, memory, pkt_buf, pkt_len, inp, eof_at, stk>>

\* dbg_enc_bin(buf, buf_len, inp, |inp|)
EncBin ==
    /\ pc = "codec"
    /\ \E buf_len \in {Len(inp), 2 * Len(inp)} :
       \E r \in {dbg_enc_bin(buf_len, inp, Len(inp))} :
          io' = <<Returned("enc_bin", buf_len, r.status, r.buf)>>
    /\ pc' = "enc_bin"
    /\ UNCHANGED <<regs, memory, pkt_buf, pkt_len, inp, eof_at, stk>>

\* dbg_dec_bin of what dbg_enc_bin wrote, with data_len = |inp|
DecBinEncoded ==
    /\ pc = "enc_bin"
    /\ io[1].d.status # EOF
    /\ \E r \in {dbg_dec_bin(io[1].d.out, Len(io[1].d.out), Len(inp))} :
          io' = Append(io, Returned("dec_bin_enc", Len(inp), r.status, r.data))
    /\ pc' = "done"
    /\ UNCHANGED <<regs, memory, pkt_buf, pkt_len, inp, eof_at, stk>>

CodecNext ==
    \/ EncHex
    \/ DecHexEncoded
    \/ DecHex
    \/ EncBin
    \/ DecBinEncoded

CodecSpec == CodecInit /\ [][CodecNext]_vars

(***************************************************************************)
(* dbg_strtol on its own: a caller hands it the first len bytes of the     *)
(* string in inp; io holds what the call returned.                         *)
(***************************************************************************)
MaxStrLen == 4

\* The bytes the strings are made of: the signs, the prefix, a decimal
\* digit, a digit of base 16 only, and a letter that is no digit.
StrtolBytes == { Ord("-"), Ord("+"), Ord("0"), Ord("x"), Ord("a"), Ord("g") }

\* The strings of at most n bytes.
RECURSIVE Strings(_)
Strings(n) ==
    IF n = 0 THEN { <<>> }
    ELSE Strings(n - 1)
            \cup { Append(b, c) : b \in Strings(n - 1), c \in StrtolBytes }

StrtolInit ==
    /\ \E l \in Loads : l.stk = 0 /\ stk = l.stk /\ regs = l.regs
    /\ memory = Memory0
    /\ pkt_buf = [i \in 1..PKT_BUF_LEN |-> stk]
    /\ pkt_len = 0
    /\ pc = "strtol"
    /\ inp \in Strings(MaxStrLen)
    /\ io = <<>>
    /\ eof_at = "none"

\* dbg_strtol(inp, len, base, &endptr)
Strtol ==
    /\ pc = "strtol"
    /\ \E len \in 0..Len(inp) : \E base \in {0, 10, 16} :
       \E r \in {dbg_strtol(inp, len, base)} :
          io' = <<Returned("strtol", [len |-> len, base |-> base], r.endptr, r.value)>>
    /\ pc' = "done"
    /\ UNCHANGED <<regs, memory, pkt_buf, pkt_len, inp, eof_at, stk>>

StrtolNext == Strtol

StrtolSpec == StrtolInit /\ [][StrtolNext]_vars

(***************************************************************************)
(* Properties of the transcript                                            *)
(***************************************************************************)
Ack == Event("ack", <<Ord("+")>>)
Nack == Event("ack", <<Ord("-")>>)

\* The payload of a "frame" event and its two checksum characters.
FramePayload(e) == SubSeq(e.d, 1, Len(e.d) - 3)
FrameCsum(e) == SubSeq(e.d, Len(e.d) - 1, Len(e.d))

\* The payload of a "reply" event $payload#hh.
ReplyPayload(e) == SubSeq(e.d, 2, Len(e.d) - 3)

\* The places of the transcript t that hold an event of kind k.
Places(t, k) == { i \in 1..Len(t) : t[i].k = k }

\* The last place of kind k, 0 when there is none.
LastPlace(t, k) ==
    IF Places(t, k) = {} THEN 0
    ELSE CHOOSE i \in Places(t, k) : \A j \in Places(t, k) : j <= i

\* Whether the stream s starts with a frame that carries the checksum of
\* its payload.
StartsGoodFrame(s) ==
    /\ Len(s) >= 4
    /\ s[1] = Ord("$")
    /\ IndexOf(s, Ord("#")) # 0
    /\ Len(s) >= IndexOf(s, Ord("#")) + 2
    /\ SubSeq(s, IndexOf(s, Ord("#")) + 1, IndexOf(s, Ord("#")) + 2)
         = HostChecksum(SubSeq(s, 2, IndexOf(s, Ord("#")) - 1))

\* C1: every frame whose two checksum characters were read is followed in
\* the transcript by exactly one acknowledgment byte, '+' or '-', written
\* before any byte of a reply, whatever the payload and whatever the two
\* characters.
C1_OneAckPerFrame ==
    \A i \in Places(io, "frame") :
        /\ i < Len(io)
        /\ io[i + 1] \in {Ack, Nack}
        /\ (i + 2 <= Len(io) => io[i + 2].k # "ack")

\* C2: between two frames read, and after the last frame read, the
\* transcript holds at most one reply frame.
C2_AtMostOneReply ==
    \A i, j \in Places(io, "reply") :
        i < j => \E m \in Places(io, "frame") : i < m /\ m < j

\* C3: after a '-' for a frame whose checksum digits do not match, the
\* server is receiving again, so that a well-formed frame that follows on the
\* stream will be read.
C3_NackThenReceive ==
    (Len(io) > 0 /\ io[Len(io)] = Nack /\ StartsGoodFrame(inp)) => pc = "recv"

\* The value of two checksum characters, -1 when they are not hex digits.
CsumValue(cc) ==
    IF dbg_get_val(cc[1], 16) = EOF \/ dbg_get_val(cc[2], 16) = EOF THEN -1
    ELSE 16 * dbg_get_val(cc[1], 16) + dbg_get_val(cc[2], 16)

\* Whether the frame of event e carries a checksum other than its payload's.
WrongChecksum(e) ==
    CsumValue(FrameCsum(e)) # SumBytes(FramePayload(e), 1, Len(FramePayload(e)))

\* C4: while the last frame read is one with a wrong checksum, no step
\* changes a register or a byte of a memory region, and no reply frame is
\* written after that frame.
C4_BadFrameNoEffect ==
    [][ (LastPlace(io', "frame") # 0 /\ WrongChecksum(io'[LastPlace(io', "frame")]))
        => /\ regs' = regs
           /\ memory' = memory
           /\ \A i \in Places(io', "reply") : i < LastPlace(io', "frame") ]_vars

\* A memory write with a wrong checksum was read and rejected.
C4_Witness ==
    /\ Len(io) = 2
    /\ io[1].k = "frame"
    /\ FramePayload(io[1]) = Str("M3ffe8004,2:1234")
    /\ WrongChecksum(io[1])
    /\ io[2] = Nack
    /\ memory = Memory0

\* C5: once the stream has ended during a receive (while bytes before '$'
\* are discarded, while the payload is read, or while the two checksum
\* characters are read), dbg_main has returned.
C5_EofReturns ==
    eof_at \in {"wait_start", "payload", "csum"} => pc = "returned"

\* The events a step added to the transcript.
Added(t, u) == SubSeq(u, Len(t) + 1, Len(u))

\* C6: a `G` packet whose data is the block `g` sends for the registers as
\* they are is answered OK and leaves pc, sar, litbase, sr176, ps and
\* a[0..15] as they are.
C6_RoundTrip ==
    [][ (/\ Command("G")
         /\ pkt_len = 1 + NUM_SLOTS * 8
         /\ SubSeq(pkt_buf, 2, pkt_len) = EncodeRegs(regs))
        => /\ regs' = regs
           /\ Len(Added(io, io')) >= 1
           /\ Added(io, io')[1] = Event("reply", Str("$OK#9a")) ]_vars

\* The two lowercase hex digits of a byte.
Hex2(b) == << Str("0123456789abcdef")[(b \div 16) + 1],
              Str("0123456789abcdef")[(b % 16) + 1] >>

\* The eight hex digits of a word, least significant byte first.
LsbFirstHex(w) ==
    Hex2(w.lo % 256) \o Hex2(w.lo \div 256) \o Hex2(w.hi % 256) \o Hex2(w.hi \div 256)

\* The eight characters of slot k of the register block of r.
SlotText(r, k) ==
    IF k = 0 THEN LsbFirstHex(r.pc)
    ELSE IF k = 36 THEN LsbFirstHex(r.sar)
    ELSE IF k = 37 THEN LsbFirstHex(r.litbase)
    ELSE IF k = 40 THEN LsbFirstHex(r.sr176)
    ELSE IF k = 42 THEN LsbFirstHex(r.ps)
    ELSE IF k \in 97..112 THEN LsbFirstHex(r.a[k - 97])
    ELSE Str("xxxxxxxx")

\* The first reply frame a step wrote, <<>> when it wrote none.
FirstReply(t, u) ==
    IF \E i \in 1..Len(Added(t, u)) : Added(t, u)[i].k = "reply"
    THEN Added(t, u)[CHOOSE i \in 1..Len(Added(t, u)) :
                        /\ Added(t, u)[i].k = "reply"
                        /\ \A j \in 1..(i - 1) : Added(t, u)[j].k # "reply"].d
    ELSE <<>>

\* C7: the reply to `g` is 904 characters, 113 slots of 8: slots 0, 36, 37,
\* 40, 42 and 97..112 hold pc, sar, litbase, sr176, ps and a[0..15] as eight
\* lowercase hex digits, least significant byte first, and every other slot
\* is xxxxxxxx.
C7_RegisterBlock ==
    [][ Command("g")
        => /\ Len(FirstReply(io, io')) = 904 + 4
           /\ \A k \in 0..112 :
                SubSeq(FirstReply(io, io'), 8 * k + 2, 8 * k + 9) = SlotText(regs, k) ]_vars

\* `g` was answered while pc is 0x4010569c.
C7_Witness ==
    /\ Len(io) = 4
    /\ FramePayload(io[1]) = Str("g")
    /\ io[3].k = "reply"
    /\ SubSeq(io[3].d, 1, 9) = Str("$9c561040")
    /\ Len(io[3].d) = 908

\* The register number of a `p` payload, -1 when it is none or negative.
RegisterNumber(payload) ==
    IF dbg_strtol(From(payload, 1), Len(payload) - 1, 16).endptr = NULL
       \/ dbg_strtol(From(payload, 1), Len(payload) - 1, 16).value.hi # 0
    THEN -1
    ELSE dbg_strtol(From(payload, 1), Len(payload) - 1, 16).value.lo

\* C8: the first frame that answers `p N` holds the eight characters of
\* slot N (the register's hex digits, least significant byte first, for N in
\* 0, 36, 37, 40, 42, 97..112, and xxxxxxxx for any other N), which are the
\* characters slot N has in the reply to `g` in the same state.
C8_SingleRegister ==
    [][ (Command("p")
         /\ dbg_strtol(From(SubSeq(pkt_buf, 1, pkt_len), 1), pkt_len - 1, 16).endptr # NULL)
        => /\ SubSeq(FirstReply(io, io'), 2, Len(FirstReply(io, io')) - 3)
                = SlotText(regs, RegisterNumber(SubSeq(pkt_buf, 1, pkt_len)))
           /\ RegisterNumber(SubSeq(pkt_buf, 1, pkt_len)) \in 0..112
                => SubSeq(FirstReply(io, io'), 2, Len(FirstReply(io, io')) - 3)
                     = Slot(EncodeRegs(regs), RegisterNumber(SubSeq(pkt_buf, 1, pkt_len))) ]_vars

\* `p24` was answered with the digits of sar, slot 36.
C8_Witness ==
    /\ Len(io) >= 4
    /\ FramePayload(io[1]) = Str("p24")
    /\ io[3].k = "reply"
    /\ ReplyPayload(io[3]) = LsbFirstHex(regs.sar)
    /\ regs.sar = W32(0, 31)

\* The lowercase hex digits of a sequence of bytes.
HexText(b) == [k \in 1..(2 * Len(b)) |-> Hex2(b[(k + 1) \div 2])[((k - 1) % 2) + 1]]

\* The "addr,len" text and the data of a write payload.
WriteHead(p) == SubSeq(p, 2, IndexOf(p, Ord(":")) - 1)
WriteData(p) == SubSeq(p, IndexOf(p, Ord(":")) + 1, Len(p))

\* The bytes B a write payload carries for len bytes, <<>> when its data
\* is not the encoding of len bytes.
WrittenBytes(p) ==
    IF p[1] = Ord("M")
    THEN IF dbg_dec_hex(WriteData(p), Len(WriteData(p)),
                        ParseAddrLength(p, Len(p)).length.lo).status = 0
         THEN dbg_dec_hex(WriteData(p), Len(WriteData(p)),
                          ParseAddrLength(p, Len(p)).length.lo).data
         ELSE <<>>
    ELSE IF dbg_dec_bin(WriteData(p), Len(WriteData(p)),
                        ParseAddrLength(p, Len(p)).length.lo).status
              = ParseAddrLength(p, Len(p)).length.lo
         THEN dbg_dec_bin(WriteData(p), Len(WriteData(p)),
                          ParseAddrLength(p, Len(p)).length.lo).data
         ELSE <<>>

\* Whether place i of the transcript starts: a write of 1..64 bytes B
\* answered OK, then a read of the same addr,len and its reply.
WriteThenRead(t, i) ==
    /\ i + 6 <= Len(t)
    /\ Len(FramePayload(t[i])) >= 1
    /\ FramePayload(t[i])[1] \in {Ord("M"), Ord("X")}
    /\ IndexOf(FramePayload(t[i]), Ord(":")) # 0
    /\ ParseAddrLength(FramePayload(t[i]), Len(FramePayload(t[i]))).ok
    /\ ParseAddrLength(FramePayload(t[i]), Len(FramePayload(t[i]))).length.hi = 0
    /\ ParseAddrLength(FramePayload(t[i]), Len(FramePayload(t[i]))).length.lo \in 1..64
    /\ Len(WrittenBytes(FramePayload(t[i])))
         = ParseAddrLength(FramePayload(t[i]), Len(FramePayload(t[i]))).length.lo
    /\ t[i + 1] = Ack
    /\ t[i + 2] = Event("reply", Str("$OK#9a"))
    /\ t[i + 3].k = "ackin"
    /\ t[i + 4].k = "frame"
    /\ FramePayload(t[i + 4]) = Str("m") \o WriteHead(FramePayload(t[i]))
    /\ t[i + 5] = Ack
    /\ t[i + 6].k = "reply"

\* C9: when `M addr,len:hex(B)` or `X addr,len:` with the escaped bytes of B,
\* 1 <= len <= 64, is answered OK and the next frame is `m addr,len`, the
\* reply to it is the lowercase hex encoding of B.
C9_WriteReadSymmetry ==
    \A i \in Places(io, "frame") :
        WriteThenRead(io, i)
            => ReplyPayload(io[i + 6]) = HexText(WrittenBytes(FramePayload(io[i])))

\* Two bytes, one of them escaped, were written with `X` and read back.
C9_Witness ==
    /\ Len(io) = 8
    /\ WriteThenRead(io, 1)
    /\ FramePayload(io[1]) = Str("X3ffe8004,2:}]a")
    /\ ReplyPayload(io[7]) = Str("7d61")

\* Whether addr lies in a region of the memory map.
Mapped(addr) ==
    \E i \in 1..Len(memory) :
        /\ ~Lt32(addr, memory[i].base)
        /\ Lt32(addr, Add32(memory[i].base, memory[i].size))

\* The byte the memory map holds at a mapped addr.
ByteAt(addr) ==
    LET i == CHOOSE i \in 1..Len(memory) :
                /\ ~Lt32(addr, memory[i].base)
                /\ Lt32(addr, Add32(memory[i].base, memory[i].size))
                /\ \A j \in 1..(i - 1) :
                     Lt32(addr, memory[j].base)
                     \/ ~Lt32(addr, Add32(memory[j].base, memory[j].size))
    IN  DataAt(memory[i], Diff32(addr, memory[i].base))

\* addr and len of the packet in pkt_buf, a well-formed `m addr,len`.
ReadRequest == ParseAddrLength(SubSeq(pkt_buf, 1, pkt_len), pkt_len)

\* Whether every address of the range of the request is mapped.
RangeMapped ==
    \A pos \in 0..(ReadRequest.length.lo - 1) :
        Mapped(Add32(ReadRequest.addr, Word(pos)))

\* The bytes of the range of the request.
RangeBytes ==
    [p \in 1..ReadRequest.length.lo |-> ByteAt(Add32(ReadRequest.addr, Word(p - 1)))]

TooLong == ReadRequest.length.hi # 0 \/ ReadRequest.length.lo > 64

\* C10, as the claim states it: `m addr,len` is answered E00 when len > 64,
\* when addr is outside every region or when the range is partially mapped,
\* and else with the 2*len hex digits of the bytes of the range.
C10_ReadReplyAsStated ==
    [][ (Command("m") /\ ReadRequest.ok)
        => ReplyPayload([d |-> FirstReply(io, io')])
             = IF TooLong \/ ~Mapped(ReadRequest.addr) \/ ~RangeMapped
               THEN Str("E00") ELSE HexText(RangeBytes) ]_vars

\* C10, amended: `m addr,len` is answered E00 when len > 64 or when len >= 1
\* and some address of addr..addr+len-1 is not mapped, and else with the
\* 2*len hex digits of the bytes of the range; with len = 0 that is the empty
\* reply, whether addr is mapped or not.
C10_ReadReply ==
    [][ (Command("m") /\ ReadRequest.ok)
        => /\ ReplyPayload([d |-> FirstReply(io, io')])
                = IF TooLong \/ ~RangeMapped
                  THEN Str("E00") ELSE HexText(RangeBytes)
           /\ Len(Added(io, io')) = 2 ]_vars

\* `m0,0`, a read of no byte at an address outside every region, was
\* answered with the empty reply.
C10_Witness ==
    /\ Len(io) >= 4
    /\ FramePayload(io[1]) = Str("m0,0")
    /\ io[3] = Event("reply", Str("$#00"))

\* The payload of the packet in pkt_buf.
Payload == SubSeq(pkt_buf, 1, pkt_len)

\* Whether the packet in pkt_buf is a write `M` or `X` with addr, ',', len
\* and ':' in its payload.
WriteRequest ==
    /\ (Command("M") \/ Command("X"))
    /\ ParseAddrLength(Payload, pkt_len).ok
    /\ token_expect_seperator(Payload, ParseAddrLength(Payload, pkt_len).ptr, ":").ok

\* The number of bytes the data of the write in pkt_buf decodes to: hex
\* pairs for `M`, escaped binary for `X`; -1 when it is no whole number.
DecodedCount ==
    IF Command("M")
    THEN IF Len(WriteData(Payload)) % 2 = 0 THEN Len(WriteData(Payload)) \div 2 ELSE -1
    ELSE dbg_dec_bin(WriteData(Payload), Len(WriteData(Payload)),
                     Len(WriteData(Payload)) + 1).status

\* C11: a write `M` or `X` whose data decodes to another number of bytes
\* than len, fewer or more, is answered E00.
C11_LengthMismatch ==
    [][ (/\ WriteRequest
         /\ ParseAddrLength(Payload, pkt_len).length # Word(DecodedCount))
        => ReplyPayload([d |-> FirstReply(io, io')]) = Str("E00") ]_vars

\* Whether the payload of the packet in pkt_buf starts with the bytes of str.
PayloadStartsWith(str) ==
    /\ pkt_len >= Len(str)
    /\ SubSeq(pkt_buf, 1, Len(str)) = str

\* The reply a `q` payload is to get from what it starts with.
QueryAnswer ==
    IF PayloadStartsWith(Str("qSupported")) THEN Str("swbreak+;hwbreak+;PacketSize=FF")
    ELSE IF PayloadStartsWith(Str("qAttached")) THEN Str("1")
    ELSE <<>>

\* C12: a `q` packet is answered with the feature list when its payload
\* starts with qSupported, with 1 when it starts with qAttached, and with
\* the empty payload otherwise, whatever packets came before it.
C12_QueryReplies ==
    [][ Command("q") => ReplyPayload([d |-> FirstReply(io, io')]) = QueryAnswer ]_vars

\* C13: on an acknowledged `c` or `s` dbg_main returns with no reply sent,
\* no byte read and registers and memory as they were; on `D` exactly the
\* reply OK is sent and the process exits; once dbg_main has returned or the
\* process has exited nothing more is received or dispatched.
C13_ResumeAndDetach ==
    [][ /\ (Command("c") \/ Command("s"))
            => /\ pc' = "returned"
               /\ io' = io /\ inp' = inp
               /\ regs' = regs /\ memory' = memory
        /\ Command("D")
            => /\ pc' = "exited"
               /\ Len(Added(io, io')) = 2
               /\ Added(io, io')[1] = Event("reply", SentFrame(Str("OK")))
               /\ Added(io, io')[2].k = "ackin"
               /\ regs' = regs /\ memory' = memory
        /\ pc \notin {"returned", "exited"} ]_vars

\* dbg_main has returned on an acknowledged `c` with a packet still unread.
C13_Witness ==
    /\ pc = "returned"
    /\ Len(io) >= 2
    /\ io[Len(io)] = Ack
    /\ io[Len(io) - 1].k = "frame"
    /\ FramePayload(io[Len(io) - 1]) = Str("c")
    /\ StartsGoodFrame(inp)

\* The byte x with bit n flipped.
FlipBit(x, n) ==
    IF (x \div (2 ^ n)) % 2 = 1 THEN x - 2 ^ n ELSE x + 2 ^ n

\* Whether the two characters a are the two characters b with one bit of
\* one character flipped.
OneBitOff(a, b) ==
    \E k \in 1..2 : \E n \in 0..7 :
        /\ a[k] = FlipBit(b[k], n)
        /\ a[3 - k] = b[3 - k]

\* C14: a frame whose checksum characters are the right ones with a single
\* bit flipped is answered `-`.
C14_BitFlipNacked ==
    \A i \in Places(io, "frame") :
        OneBitOff(FrameCsum(io[i]), HostChecksum(FramePayload(io[i])))
            => /\ i < Len(io)
               /\ io[i + 1] = Nack

\* C15: the memory map holds the regions it held when dbg_main started, in
\* the same order with the same base and size, and the bytes that packets
\* have changed all lie in a region's data at an offset below its size.
C15_RegionsFixed ==
    /\ Len(memory) = Len(Memory0)
    /\ \A i \in 1..Len(memory) :
        /\ memory[i].base = Memory0[i].base
        /\ memory[i].size = Memory0[i].size
        /\ memory[i].image = Memory0[i].image
        /\ \A off \in DOMAIN memory[i].data :
            /\ off >= 0
            /\ Lt32(Word(off), memory[i].size)

\* Packets have changed bytes of every region.
C15_Witness ==
    \A i \in 1..Len(memory) : DOMAIN memory[i].data # {}

\* Whether the packet in pkt_buf is an `m`, `M` or `X` whose payload lacks
\* a hex digit where the address or the length is to start, or the
\* separator that is to follow.
MemRequestMalformed ==
    /\ (Command("m") \/ Command("M") \/ Command("X"))
    /\ \/ ~ParseAddrLength(Payload, pkt_len).ok
       \/ /\ ~Command("m")
          /\ ~token_expect_seperator(Payload, ParseAddrLength(Payload, pkt_len).ptr, ":").ok

\* C16: an `m`, `M` or `X` packet whose payload lacks the address, the
\* length, the `,` or (for `M` and `X`) the `:` is answered E00 and changes
\* neither memory nor registers.
C16_MalformedFaults ==
    [][ MemRequestMalformed
        => /\ ReplyPayload([d |-> FirstReply(io, io')]) = Str("E00")
           /\ memory' = memory
           /\ regs' = regs ]_vars

\* The unread input from the start of the next frame on, without its '$'.
Incoming == From(inp, IndexOf(inp, Ord("$")))

\* The number of payload bytes of the next frame.
IncomingLen ==
    IF IndexOf(Incoming, Ord("#")) = 0 THEN Len(Incoming)
    ELSE IndexOf(Incoming, Ord("#")) - 1

\* C17: receiving a frame whose payload is longer than the packet buffer
\* stores no more bytes than the buffer holds, acknowledges nothing,
\* dispatches nothing and ends the packet loop; a well-formed frame whose
\* payload fills the buffer exactly is stored whole, acknowledged and
\* dispatched.
C17_BufferOverflow ==
    [][ (pc = "recv" /\ IndexOf(inp, Ord("$")) # 0)
        => /\ IncomingLen > PKT_BUF_LEN
                => /\ pc' = "returned"
                   /\ pkt_len' <= PKT_BUF_LEN
                   /\ Len(pkt_buf') = PKT_BUF_LEN
                   /\ io' = io
                   /\ regs' = regs /\ memory' = memory
           /\ (IncomingLen = PKT_BUF_LEN /\ StartsGoodFrame(<<Ord("$")>> \o Incoming))
                => /\ pc' = "dispatch"
                   /\ pkt_len' = PKT_BUF_LEN
                   /\ pkt_buf' = SubSeq(Incoming, 1, PKT_BUF_LEN)
                   /\ Added(io, io')[Len(Added(io, io'))] = Ack ]_vars

\* A payload that fills the buffer was dispatched and answered, and the
\* loop has ended on the payload one byte longer that followed it.
C17_Witness ==
    /\ pc = "returned"
    /\ pkt_len = PKT_BUF_LEN
    /\ Places(io, "reply") # {}
    /\ io[Len(io)].k = "ackin"

\* Whether c is a hex digit.
IsHexDigit(c) ==
    \/ c \in Ord("0")..Ord("9")
    \/ c \in Ord("a")..Ord("f")
    \/ c \in Ord("A")..Ord("F")

\* C18: dbg_enc_hex writes for every byte of b its two lowercase hex
\* digits, high nibble first, 2*|b| characters in all; dbg_dec_hex of that
\* output with data_len = |b| succeeds and yields b; dbg_dec_hex fails on an
\* input whose length is not 2*data_len or that holds a character that is
\* no hex digit.
C18_HexRoundTrip ==
    \A i \in 1..Len(io) :
        /\ io[i].k = "enc_hex"
            => /\ io[i].d.status = 2 * Len(inp)
               /\ Len(io[i].d.out) = 2 * Len(inp)
               /\ \A k \in 1..Len(inp) :
                    SubSeq(io[i].d.out, 2 * k - 1, 2 * k) = Hex2(inp[k])
        /\ io[i].k = "dec_hex_enc"
            => /\ io[i].d.status = 0
               /\ io[i].d.out = inp
        /\ (/\ io[i].k = "dec_hex"
            /\ \/ Len(inp) # 2 * io[i].d.arg
               \/ \E k \in 1..Len(inp) : ~IsHexDigit(inp[k]))
            => io[i].d.status = EOF

\* A string with a byte above 0x7f went through dbg_enc_hex and dbg_dec_hex.
C18_Witness ==
    /\ pc = "done"
    /\ io[Len(io)].k = "dec_hex_enc"
    /\ Len(inp) >= 2
    /\ \E k \in 1..Len(inp) : inp[k] = \hE1

\* The bytes dbg_enc_bin is to escape.
Special == { Ord("$"), Ord("#"), Ord("}"), Ord("*") }

\* The size of the escaped form of b.
EncodedSize(b) == Len(b) + Cardinality({ k \in 1..Len(b) : b[k] \in Special })

\* C19: with an output buffer large enough, dbg_enc_bin succeeds, every
\* '}' of its output is followed by a byte that is 0x20 apart from one of
\* '$', '#', '}', '*', and its output holds no '$', '#' or '*';
\* dbg_dec_bin of that output yields b.
C19_BinRoundTrip ==
    \A i \in 1..Len(io) :
        /\ (io[i].k = "enc_bin" /\ io[i].d.arg >= EncodedSize(inp))
            => /\ io[i].d.status = EncodedSize(inp)
               /\ Len(io[i].d.out) = EncodedSize(inp)
               /\ \A k \in 1..Len(io[i].d.out) :
                    /\ io[i].d.out[k] \notin { Ord("$"), Ord("#"), Ord("*") }
                    /\ io[i].d.out[k] = Ord("}")
                        => /\ k < Len(io[i].d.out)
                           /\ io[i].d.out[k + 1] \in { \h04, \h03, \h5D, \h0A }
        /\ io[i].k = "dec_bin_enc"
            => /\ io[i].d.status = Len(inp)
               /\ io[i].d.out = inp

\* A string with '}' and '$' in it went through dbg_enc_bin and dbg_dec_bin.
C19_Witness ==
    /\ pc = "done"
    /\ io[Len(io)].k = "dec_bin_enc"
    /\ \E k \in 1..Len(inp) : inp[k] = Ord("}")
    /\ \E k \in 1..Len(inp) : inp[k] = Ord("$")

\* The number of replies among the events e.
Replies(e) == Cardinality({ i \in 1..Len(e) : e[i].k = "reply" })

\* Whether, in a step from transcript t and input s to transcript u and
\* input v, one byte was read right after every reply sent and nowhere
\* else, those bytes were taken off the input, and no reply was sent a
\* second time after the byte that answered it.
OneByteReadPerReply(t, s, u, v) ==
    /\ \A i \in 1..Len(Added(t, u)) :
        /\ Added(t, u)[i].k = "reply"
            => /\ i < Len(Added(t, u))
               /\ Added(t, u)[i + 1].k = "ackin"
               /\ i + 2 <= Len(Added(t, u)) => Added(t, u)[i + 2] # Added(t, u)[i]
        /\ Added(t, u)[i].k = "ackin"
            => /\ i > 1
               /\ Added(t, u)[i - 1].k = "reply"
               /\ Added(t, u)[i].d = <<Peek(s, i \div 2 - 1)>> \/ i \div 2 > Len(s)
    /\ v = From(s, Replies(Added(t, u)))

\* C20 as stated: after every reply one byte is read and consumed, be it
\* '+', '-' or another byte, the reply is not sent again, and the loop goes
\* on to receive the next packet.
C20_AckConsumedAsStated ==
    [][ Replies(Added(io, io')) > 0
        => /\ OneByteReadPerReply(io, inp, io', inp')
           /\ pc' = "recv" ]_vars

\* C20: after every reply one byte is read and consumed, be it '+', '-' or
\* another byte, and the reply is not sent again; the loop then goes on to
\* receive the next packet, except after the reply to `D`, where the
\* process exits.
C20_AckConsumed ==
    [][ Replies(Added(io, io')) > 0
        => /\ OneByteReadPerReply(io, inp, io', inp')
           /\ pc' = IF Command("D") THEN "exited" ELSE "recv" ]_vars

\* A reply was answered '-' and the next frame was then received and
\* acknowledged, and its reply was answered with a byte that is neither
\* '+' nor '-'.
C20_Witness ==
    /\ pc = "recv"
    /\ \E i \in Places(io, "reply") :
        /\ i + 3 <= Len(io)
        /\ io[i + 1] = Event("ackin", Str("-"))
        /\ io[i + 2].k = "frame"
        /\ io[i + 3] = Ack
    /\ io[Len(io)] = Event("ackin", Str("x"))

\* The value of the digit c, 99 when c is no digit.
DigitValue(c) ==
    IF c \in Ord("0")..Ord("9") THEN c - Ord("0")
    ELSE IF c \in Ord("a")..Ord("f") THEN c - Ord("a") + 10
    ELSE IF c \in Ord("A")..Ord("F") THEN c - Ord("A") + 10
    ELSE 99

\* The number that the digits str[lo..hi] (1-based) spell in base b.
RECURSIVE NumberOf(_, _, _, _)
NumberOf(str, lo, hi, b) ==
    IF lo > hi THEN 0
    ELSE NumberOf(str, lo, hi - 1, b) * b + DigitValue(str[hi])

\* The int n, or -n, as a 32-bit word, for 0 <= n < 2^31.
SignedWord(negative, n) ==
    IF negative /\ n > 0
    THEN W32(65535 - ((n - 1) \div 65536), 65535 - ((n - 1) % 65536))
    ELSE Word(n)

\* The offset at which reading digits of base b stops, from offset from on,
\* in the first len bytes of str.
StopOffset(str, len, from, b) ==
    CHOOSE e \in from..len :
        /\ \A k \in (from + 1)..e : DigitValue(str[k]) < b
        /\ e = len \/ DigitValue(str[e + 1]) >= b

\* Whether the call e of dbg_strtol on str returned what reading a sign of
\* sgn bytes, a prefix of pre bytes and then digits of base b gives.
ReadsAs(str, e, sgn, pre, b) ==
    /\ sgn + pre <= e.arg.len
    /\ sgn = 1 => str[1] \in {Ord("-"), Ord("+")}
    /\ pre = 2 => /\ str[sgn + 1] = Ord("0")
                  /\ str[sgn + 2] \in {Ord("x"), Ord("X")}
    /\ IF StopOffset(str, e.arg.len, sgn + pre, b) = sgn + pre
       THEN e.status = NULL /\ e.out = Word(0)
       ELSE /\ e.status = StopOffset(str, e.arg.len, sgn + pre, b)
            /\ e.out = SignedWord(sgn = 1 /\ str[1] = Ord("-"),
                                  NumberOf(str, sgn + pre + 1,
                                           StopOffset(str, e.arg.len, sgn + pre, b), b))

\* C21: dbg_strtol on the first len bytes takes an optional sign
\* and an optional 0x/0X prefix, reads digits of the base passed (for base
\* 0: 16 after a prefix, else 10) up to the first byte that is no digit or
\* up to len, and returns the signed value and the stop position, or 0 and
\* NULL when it read no digit.
C21_Strtol ==
    \A i \in 1..Len(io) :
        io[i].k = "strtol"
            => \E sgn \in {0, 1} : \E pre \in {0, 2} :
                  ReadsAs(inp, io[i].d, sgn, pre,
                          IF io[i].d.arg.base # 0 THEN io[i].d.arg.base
                          ELSE IF pre = 2 THEN 16 ELSE 10)

\* C22: an `M` or `X` write that is answered E00 leaves every byte of
\* every memory region as it was.
C22_FaultedWriteWritesNothing ==
    [][ (/\ Command("M") \/ Command("X")
         /\ ReplyPayload([d |-> FirstReply(io, io')]) = Str("E00"))
        => memory' = memory ]_vars

\* Whether the frame at place i of the transcript was acknowledged and
\* answered.
Answered(i) ==
    /\ i + 2 <= Len(io)
    /\ io[i + 1] = Ack
    /\ io[i + 2].k = "reply"

\* Whether registers and memory are as the loader left them and no packet
\* that writes them (`G`, `M`, `X`) was received, so that every packet of
\* the run was received in the same DebugState.
DebugStateNeverWritten ==
    /\ regs \in { l.regs : l \in Loads }
    /\ memory = Memory0
    /\ \A i \in Places(io, "frame") :
        \/ FramePayload(io[i]) = <<>>
        \/ FramePayload(io[i])[1] \notin { Ord("G"), Ord("M"), Ord("X") }

\* C23: two packets with the same payload that are received in the same
\* DebugState get the same reply, whatever was received and sent before
\* each of them.
C23_ReplyOfPayloadAndState ==
    DebugStateNeverWritten
        => \A i, j \in Places(io, "frame") :
              (/\ Answered(i)
               /\ Answered(j)
               /\ FramePayload(io[i]) = FramePayload(io[j]))
                  => io[i + 2] = io[j + 2]

\* The first bytes of the packets dbg_main has a case for.
Supported ==
    { Ord("q"), Ord("g"), Ord("G"), Ord("p"), Ord("P"), Ord("m"), Ord("M"),
      Ord("X"), Ord("D"), Ord("c"), Ord("s"), Ord("?") }

\* C24: every acknowledged packet other than `c` and `s` is answered by a
\* reply frame before the next packet is received, and a packet with an
\* empty payload or with a first byte that no case handles is answered
\* with the empty frame $#00.
C24_EveryPacketAnswered ==
    [][ (pc = "dispatch" /\ ~Command("c") /\ ~Command("s"))
        => /\ Replies(Added(io, io')) >= 1
           /\ (pkt_len = 0 \/ pkt_buf[1] \notin Supported)
                => FirstReply(io, io') = Str("$#00") ]_vars

\* C25: what the server has written is made of acknowledgement bytes '+'
\* and '-' and of frames $payload#hh whose payload holds neither '$' nor
\* '#' and whose hh are the two lowercase hex digits of the sum of the
\* payload bytes modulo 256, so that the first '#' of a frame ends its
\* payload.
C25_OutputGrammar ==
    \A i \in 1..Len(io) :
        /\ io[i].k = "ack" => io[i].d \in { Str("+"), Str("-") }
        /\ io[i].k = "reply"
            => /\ Len(io[i].d) >= 4
               /\ io[i].d[1] = Ord("$")
               /\ IndexOf(io[i].d, Ord("#")) = Len(io[i].d) - 2
               /\ \A k \in 2..Len(io[i].d) : io[i].d[k] # Ord("$")
               /\ SubSeq(io[i].d, Len(io[i].d) - 1, Len(io[i].d))
                    = HostChecksum(ReplyPayload(io[i]))

\* The register block was sent and a frame was answered '-'.
C25_Witness ==
    /\ \E i \in Places(io, "reply") : Len(io[i].d) = 8 * NUM_SLOTS + 4
    /\ \E i \in Places(io, "ack") : io[i] = Nack

\* Whether the packet in pkt_buf is one of `q`, `g`, `p`, `P`, `m`, `?`,
\* the empty packet or a packet whose first byte no case handles.
ReadOnlyPacket ==
    /\ pc = "dispatch"
    /\ \/ pkt_len = 0
       \/ pkt_buf[1] \in { Ord("q"), Ord("g"), Ord("p"), Ord("P"), Ord("m"), Ord("?") }
       \/ pkt_buf[1] \notin Supported

\* C26: `q`, `g`, `p`, `P`, `m`, `?`, the empty packet and packets with an
\* unsupported first byte change no register and no byte of memory; `P` is
\* answered E00 and nothing else; registers change only on `G` and memory
\* only on `M` and `X`.
C26_WhoWritesWhat ==
    [][ /\ ReadOnlyPacket => (regs' = regs /\ memory' = memory)
        /\ Command("P")
            => /\ Replies(Added(io, io')) = 1
               /\ FirstReply(io, io') = Str("$E00#a5")
        /\ regs' # regs => Command("G")
        /\ memory' # memory => (Command("M") \/ Command("X")) ]_vars

\* After a `G` that changed registers, a `P` was answered E00.
C26_Witness ==
    /\ pc = "recv"
    /\ regs \notin { l.regs : l \in Loads }
    /\ LastPlace(io, "frame") # 0
    /\ FramePayload(io[LastPlace(io, "frame")])[1] = Ord("P")
    /\ io[Len(io) - 1] = Event("reply", Str("$E00#a5"))

====
